---------------------------- MODULE Spec2Model ----------------------------
(***************************************************************************)
(* Model of src/src/parse.py: the Eurowings / Free2Move invoice renamer.   *)
(*                                                                         *)
(* Strings are sequences of one-character strings, so that substring       *)
(* search, splitting, regular-expression matching, date formatting and the *)
(* stem/suffix arithmetic of pathlib are computed the way the code         *)
(* computes them.  An Optional value is a sequence of length 0 (None) or 1.*)
(* A float amount is held in cents (every amount the patterns accept has   *)
(* exactly two decimals).                                                  *)
(***************************************************************************)
EXTENDS Integers, Sequences, FiniteSets, TLC

VARIABLES
    fs,         \* the directory: name -> [kind, content]
    fs0,        \* the directory as it was when main started (history)
    argv,       \* [paths, dry_run]: the parsed command line
    files,      \* main's list `files`
    idx,        \* number of files main's loop has finished
    ok_all,     \* main's ok_all
    stdout,     \* the printed messages, in order
    exit_code,  \* sys.exit status, None while running
    pc,         \* position of main / of the function under test
    calls,      \* the paths process_file was called with, in order (history)
    last,       \* what the latest process_file call did (history)
    inp,        \* argument of the pure function under test
    outp        \* its result

vars == <<fs, fs0, argv, files, idx, ok_all, stdout, exit_code, pc, calls,
          last, inp, outp>>

-----------------------------------------------------------------------------
(* Bounds *)

MaxNameLines == 2
MaxFlightLines == 3
MaxArgs == 2
MaxDirEntries == 2

-----------------------------------------------------------------------------
(* Strings *)

\* the sequence q with its elements computed once
AsTuple(q) == q \o <<>>

Chars(s) == AsTuple([i \in 1..Len(s) |-> SubSeq(s, i, i)])

None == <<>>
Some(x) == <<x>>

\* the sequences over S of length at most n
SeqsUpTo(S, n) == UNION {[1..k -> S] : k \in 0..n}

UpperChars == Chars("ABCDEFGHIJKLMNOPQRSTUVWXYZ")
LowerChars == Chars("abcdefghijklmnopqrstuvwxyz")
DigitChars == Chars("0123456789")
WS == {" ", "\t", "\n", "\r", "\f"}

Digits == {DigitChars[k] : k \in 1..10}
DigitValOf == [c \in Digits |-> (CHOOSE k \in 1..10 : DigitChars[k] = c) - 1]
DigitVal(c) == DigitValOf[c]

LowerOf == [c \in {UpperChars[k] : k \in 1..26} |->
               LowerChars[CHOOSE k \in 1..26 : UpperChars[k] = c]]

LowerChar(c) == IF c \in DOMAIN LowerOf THEN LowerOf[c] ELSE c

\* str.lower()
Lower(s) == AsTuple([i \in 1..Len(s) |-> LowerChar(s[i])])

\* s[i:] and s[:i] with Python's 0-based offsets
From(s, i) == SubSeq(s, i + 1, Len(s))
Upto(s, i) == SubSeq(s, 1, i)

\* s.startswith(p, i)
StartsAt(s, p, i) == i + Len(p) <= Len(s) /\ \A k \in 1..Len(p) : s[i + k] = p[k]

\* p in s
Contains(s, p) == \E i \in 0..Len(s) : StartsAt(s, p, i)

\* s.replace(a, b) for single characters a, b
ReplaceChar(s, a, b) == AsTuple([i \in 1..Len(s) |-> IF s[i] = a THEN b ELSE s[i]])

Reverse(q) == AsTuple([i \in 1..Len(q) |-> q[Len(q) + 1 - i]])

RECURSIVE Join(_, _)
\* sep.join(parts)
Join(parts, sep) ==
    IF parts = <<>> THEN <<>>
    ELSE IF Len(parts) = 1 THEN parts[1]
    ELSE parts[1] \o sep \o Join(Tail(parts), sep)

RECURSIVE SkipIn(_, _, _)
\* the offset reached from offset i by skipping characters of `set`
SkipIn(s, set, i) ==
    IF i < Len(s) /\ s[i + 1] \in set THEN SkipIn(s, set, i + 1) ELSE i

RECURSIVE SkipNotIn(_, _, _)
\* the offset reached from offset i by skipping characters outside `set`
SkipNotIn(s, set, i) ==
    IF i < Len(s) /\ s[i + 1] \notin set THEN SkipNotIn(s, set, i + 1) ELSE i

\* number of leading characters of s that are in `set`
RunLen(s, set) == SkipIn(s, set, 0)

\* number of leading characters of s that are outside `set`
RunLenNot(s, set) == SkipNotIn(s, set, 0)

RECURSIVE SplitWs(_)
\* s.split(): split on runs of whitespace, no empty tokens
SplitWs(s) ==
    LET t == From(s, RunLen(s, WS))
        n == RunLenNot(t, WS)
    IN  IF t = <<>> THEN <<>>
        ELSE <<Upto(t, n)>> \o SplitWs(From(t, n))

\* s.strip()
Strip(s) ==
    LET t == From(s, RunLen(s, WS))
    IN  Upto(t, Len(t) - RunLen(Reverse(t), WS))

-----------------------------------------------------------------------------
(* parse_name_from_text *)

KNOWN_PASSENGERS == <<Chars("Andre Ziemke"), Chars("Thomas Stoeckel")>>

\* the test of line 109 for one allow-list entry
NameMatches(name, text) ==
    LET normalized == Lower(name)
        reversed_variant == Join(Reverse(SplitWs(normalized)), <<" ">>)
        slash_variant == ReplaceChar(normalized, " ", "/")
    IN  \/ Contains(text, normalized)
        \/ Contains(text, reversed_variant)
        \/ Contains(text, slash_variant)

parse_name_from_text(lines) ==
    LET text == Lower(Join(lines, <<" ">>))
        hits == {k \in 1..Len(KNOWN_PASSENGERS) : NameMatches(KNOWN_PASSENGERS[k], text)}
    IN  IF hits = {} THEN None
        ELSE Some(KNOWN_PASSENGERS[CHOOSE k \in hits : \A j \in hits : k <= j])

-----------------------------------------------------------------------------
(* datetime *)

RECURSIVE ToInt(_)
\* int(s) for a string of digits
ToInt(s) == IF s = <<>> THEN 0 ELSE 10 * ToInt(Upto(s, Len(s) - 1)) + DigitVal(s[Len(s)])

IsLeap(y) == (y % 4 = 0 /\ y % 100 # 0) \/ y % 400 = 0

DaysInMonth(y, m) ==
    IF m = 2 THEN (IF IsLeap(y) THEN 29 ELSE 28)
    ELSE IF m \in {4, 6, 9, 11} THEN 30 ELSE 31

\* datetime(year, month, day) accepts exactly these; otherwise ValueError
IsValidDate(y, m, d) ==
    y >= 1 /\ m \in 1..12 /\ d >= 1 /\ d <= DaysInMonth(y, m)

\* a < b on datetimes at midnight
DateLess(a, b) ==
    \/ a.year < b.year
    \/ a.year = b.year /\ a.month < b.month
    \/ a.year = b.year /\ a.month = b.month /\ a.day < b.day

\* datetime(y, m, d): Some(datetime), or None for ValueError
MakeDate(y, m, d) ==
    IF IsValidDate(y, m, d) THEN Some([year |-> y, month |-> m, day |-> d]) ELSE None

\* datetime.strptime(day "." month "." year, "%d.%m.%Y") on digit strings
Strptime(ds, ms, ys) == MakeDate(ToInt(ys), ToInt(ms), ToInt(ds))

\* d put into the sorted list behind every element that is not greater
InsertAt(sorted, d, n) == Upto(sorted, n) \o <<d>> \o From(sorted, n)

InsertDate(sorted, d) ==
    InsertAt(sorted, d, Cardinality({k \in 1..Len(sorted) : ~DateLess(d, sorted[k])}))

\* the sort of line 93 left out
SortDates_none(q) == q

RECURSIVE SortDates(_)
\* list.sort() by date: stable, ascending
SortDates(q) ==
    IF q = <<>> THEN <<>>
    ELSE InsertDate(SortDates(Upto(q, Len(q) - 1)), q[Len(q)])

Min2(a, b) == IF a < b THEN a ELSE b

\* the first element of q that is not None, None if there is none
FirstSome(q) ==
    IF \A k \in 1..Len(q) : q[k] = None THEN None
    ELSE q[CHOOSE k \in 1..Len(q) : q[k] # None /\ \A j \in 1..(k - 1) : q[j] = None]

\* \d{1,max} at offset i: the number of digits it takes, 0 if it fails
DigitRun(s, i, max) == Min2(SkipIn(s, Digits, i) - i, max)

-----------------------------------------------------------------------------
(* parse_dates_from_text *)

LABEL_FLIGHT == Chars("flight:")
LABEL_FLUG == Chars("flug:")
LABEL_FLIGHT_NUMBER == Chars("flight number")
LABEL_FLUGNUMMER == Chars("flugnummer")
LABEL_EW == Chars("ew")

\* (?:Flight|Flug): at offset i of the lowercased line: its length, 0 if absent
FlightLabelLen(low, i) ==
    IF StartsAt(low, LABEL_FLIGHT, i) THEN Len(LABEL_FLIGHT)
    ELSE IF StartsAt(low, LABEL_FLUG, i) THEN Len(LABEL_FLUG)
    ELSE 0

\* (?:Flight Number|Flugnummer) at offset k: its length, 0 if absent
FlightNumberLabelLen(low, k) ==
    IF StartsAt(low, LABEL_FLIGHT_NUMBER, k) THEN Len(LABEL_FLIGHT_NUMBER)
    ELSE IF StartsAt(low, LABEL_FLUGNUMMER, k) THEN Len(LABEL_FLUGNUMMER)
    ELSE 0

\* (EW\s*\d{3,4}) at offset m
FlightNumberAt(low, m) ==
    StartsAt(low, LABEL_EW, m) /\ DigitRun(low, SkipIn(low, WS, m + 2), 4) >= 3

\* [:\s]*?(EW\s*\d{3,4}) from offset a on
FlightNumberAfterLabel(low, a) ==
    \E m \in a..SkipIn(low, WS \cup {":"}, a) : FlightNumberAt(low, m)

\* (?:Flight Number|Flugnummer)[:\s]*?(EW\s*\d{3,4}) at offset k; n is the
\* length of the label found there
FlightNumberLabelled(low, k, n) == n > 0 /\ FlightNumberAfterLabel(low, k + n)

\* .*?(?:Flight Number|Flugnummer)[:\s]*?(EW\s*\d{3,4}) from offset e on
FlightNumberFollows(low, e) ==
    \E k \in e..Len(low) :
        /\ \A p \in (e + 1)..k : low[p] # "\n"
        /\ FlightNumberLabelled(low, k, FlightNumberLabelLen(low, k))

\* (\d{1,2}\.\d{1,2}\.\d{4}) and the rest of flight_pattern: the day starts
\* at offset b and has n1 digits, the month has n2
FlightYear(line, low, b, n1, n2) ==
    IF /\ n1 >= 1 /\ Len(line) > b + n1 /\ line[b + n1 + 1] = "."
       /\ n2 >= 1 /\ Len(line) > b + n1 + 1 + n2 /\ line[b + n1 + n2 + 2] = "."
       /\ DigitRun(line, b + n1 + n2 + 2, 4) = 4
       /\ FlightNumberFollows(low, b + n1 + n2 + 6)
    THEN Some(<<SubSeq(line, b + 1, b + n1),
                SubSeq(line, b + n1 + 2, b + n1 + 1 + n2),
                SubSeq(line, b + n1 + n2 + 3, b + n1 + n2 + 6)>>)
    ELSE None

FlightMonth(line, low, b, n1) ==
    FlightYear(line, low, b, n1, DigitRun(line, b + n1 + 1, 2))

FlightDay(line, low, b) == FlightMonth(line, low, b, DigitRun(line, b, 2))

\* the date group once the label of length L > 0 is found at offset i
FlightAfterLabel(line, low, i, L) ==
    IF L = 0 THEN None ELSE FlightDay(line, low, SkipIn(line, WS, i + L))

\* flight_pattern tried at offset i of `line` (low is its lowercase): None, or
\* Some(<<day, month, year>>), the three digit strings of group 1
FlightMatchAt(line, low, i) == FlightAfterLabel(line, low, i, FlightLabelLen(low, i))

FlightMatches(line, low) ==
    AsTuple([k \in 1..(Len(line) + 1) |-> FlightMatchAt(line, low, k - 1)])

\* flight_pattern.search(line): the match at the leftmost offset that has one
FlightSearch(line) == FirstSome(FlightMatches(line, Lower(line)))

\* lines 80-87: the date of a match, None if there is no match or the date
\* does not parse
FlightDate(m) == IF m = None THEN None ELSE Strptime(m[1][1], m[1][2], m[1][3])

RECURSIVE FlightDates(_)
\* the loop of lines 78-87: the dates appended to `flights`, in line order
\* (the flight number of each tuple is never read again)
FlightDates(lines) ==
    IF lines = <<>> THEN <<>>
    ELSE FlightDates(Upto(lines, Len(lines) - 1)) \o FlightDate(FlightSearch(lines[Len(lines)]))

\* lines 95-97 on the sorted list
DepRet(flights) ==
    IF flights = <<>> THEN <<None, None>>
    ELSE <<Some(flights[1]), IF Len(flights) > 1 THEN Some(flights[2]) ELSE None>>

\* returns <<dep, ret>>
parse_dates_from_text(lines) == DepRet(SortDates(FlightDates(lines)))

-----------------------------------------------------------------------------
(* parse_net_cost_from_text *)

EURO == "€"
LABEL_VAT == Chars("vat")
LABEL_MWST == Chars("mwst")

\* vat_pattern 19\s?%[\s]*(?:VAT|MwSt), case-insensitive, at offset i
VatAt(low, i) ==
    /\ StartsAt(low, <<"1", "9">>, i)
    /\ \E a \in {i + 2, i + 3} :
          /\ a = i + 3 => (Len(low) > i + 2 /\ low[i + 3] \in WS)
          /\ StartsAt(low, <<"%">>, a)
          /\ LET b == SkipIn(low, WS, a + 1)
             IN  StartsAt(low, LABEL_VAT, b) \/ StartsAt(low, LABEL_MWST, b)

\* vat_pattern somewhere in the lowercased line
VatIn(low) == \E i \in 0..Len(low) : VatAt(low, i)

VatSearch(line) == VatIn(Lower(line))

\* euro_pattern (\d{1,3}(?:[.,]\d{2}))\s*€ tried at offset i, where \d{1,3}
\* takes n digits: 0 if it does not match, else the offset where the match
\* ends
EuroEndFrom(line, i, n) ==
    IF /\ n >= 1
       /\ Len(line) >= i + n + 3
       /\ line[i + n + 1] \in {".", ","}
       /\ line[i + n + 2] \in Digits /\ line[i + n + 3] \in Digits
       /\ StartsAt(line, <<EURO>>, SkipIn(line, WS, i + n + 3))
    THEN SkipIn(line, WS, i + n + 3) + 1
    ELSE 0

EuroEndAt(line, i) == EuroEndFrom(line, i, DigitRun(line, i, 3))

\* group 1 of the match at offset i
EuroGroupAt(line, i) == SubSeq(line, i + 1, i + DigitRun(line, i, 3) + 3)

RECURSIVE EuroFindAll(_, _)
\* one step of the scan: e is what the pattern did at offset i
EuroFindStep(line, i, e) ==
    IF e > 0 THEN <<EuroGroupAt(line, i)>> \o EuroFindAll(line, e)
    ELSE EuroFindAll(line, i + 1)

\* euro_pattern.findall(line), scanning from offset i
EuroFindAll(line, i) ==
    IF i >= Len(line) THEN <<>> ELSE EuroFindStep(line, i, EuroEndAt(line, i))

\* float(s) for s = digits "." two digits, in cents
Cents(intPart, decPart) == 100 * ToInt(intPart) + ToInt(decPart)

\* float(net_str) of line 131
FloatOf(net_str) ==
    Cents(Upto(net_str, Len(net_str) - 3), From(net_str, Len(net_str) - 2))

RECURSIVE NetCostFrom(_, _)
\* lines 126-134 for line k, whose euro_values are given
NetCostStep(lines, k, euro_values) ==
    IF VatSearch(lines[k]) /\ Len(euro_values) >= 2
    THEN Some(FloatOf(ReplaceChar(euro_values[2], ",", ".")))
    ELSE NetCostFrom(lines, k + 1)

\* the loop of lines 125-134 from line number k on
NetCostFrom(lines, k) ==
    IF k > Len(lines) THEN None
    ELSE NetCostStep(lines, k, EuroFindAll(lines[k], 0))

parse_net_cost_from_text(lines) == NetCostFrom(lines, 1)

-----------------------------------------------------------------------------
(* format_date *)

Pad2(n) == <<DigitChars[((n \div 10) % 10) + 1], DigitChars[(n % 10) + 1]>>

Pad4(n) == Pad2(n \div 100) \o Pad2(n % 100)

RECURSIVE IntStr(_)
\* str(n), n >= 0
IntStr(n) == IF n < 10 THEN <<DigitChars[n + 1]>> ELSE IntStr(n \div 10) \o <<DigitChars[(n % 10) + 1]>>

\* strftime("%d.%m.") for label "hinflug", strftime("%d.%m.%Y") otherwise
format_date(d, label) ==
    IF label = "hinflug"
    THEN Pad2(d.day) \o <<".">> \o Pad2(d.month) \o <<".">>
    ELSE Pad2(d.day) \o <<".">> \o Pad2(d.month) \o <<".">> \o Pad4(d.year)

-----------------------------------------------------------------------------
(* extract_lines *)

RECURSIVE SplitOn(_, _, _)
\* s.split(sep) for a one-character sep, from offset i on
SplitOn(s, sep, i) ==
    LET e == SkipNotIn(s, {sep}, i)
    IN  IF e >= Len(s) THEN <<SubSeq(s, i + 1, Len(s))>>
        ELSE <<SubSeq(s, i + 1, e)>> \o SplitOn(s, sep, e + 1)

RECURSIVE StripAll(_)
\* [ln.strip() for ln in parts if ln.strip()]
StripAll(parts) ==
    IF parts = <<>> THEN <<>>
    ELSE LET ln == Strip(parts[1])
         IN  (IF ln = <<>> THEN <<>> ELSE <<ln>>) \o StripAll(Tail(parts))

\* `extracted` is what extract_text returned: Some(text), or None
extract_lines(extracted) ==
    LET text == IF extracted = None THEN <<>> ELSE extracted[1]
    IN  StripAll(SplitOn(ReplaceChar(text, "\r", "\n"), "\n", 0))

-----------------------------------------------------------------------------
(* parse_free2move_dates *)

\* date_pattern ^(\d{2})\.(\d{2})\.(\d{2})$ matched against the whole line
ShortDateMatch(line) ==
    /\ Len(line) = 8
    /\ \A k \in {1, 2, 4, 5, 7, 8} : line[k] \in Digits
    /\ line[3] = "." /\ line[6] = "."

\* lines 174-183 for one line: the date appended, None if there is none
ShortDate(line) ==
    IF ShortDateMatch(line)
    THEN Strptime(SubSeq(line, 1, 2), SubSeq(line, 4, 5), <<"2", "0">> \o SubSeq(line, 7, 8))
    ELSE None

RECURSIVE ShortDates(_)
\* the loop of lines 173-183: the dates appended, in line order
ShortDates(lines) ==
    IF lines = <<>> THEN <<>>
    ELSE ShortDates(Upto(lines, Len(lines) - 1)) \o ShortDate(lines[Len(lines)])

\* dates[0], dates[1] of line 188
FirstTwo(dates) == <<Some(dates[1]), Some(dates[2])>>

\* lines 185-193 on the list `dates`
F2mDepRet(dates) ==
    IF Len(dates) >= 2 THEN FirstTwo(SortDates(dates))
    ELSE IF Len(dates) = 1 THEN <<Some(dates[1]), Some(dates[1])>>
    ELSE <<None, None>>

\* returns <<dep, ret>>
parse_free2move_dates(lines) == F2mDepRet(ShortDates(lines))

-----------------------------------------------------------------------------
(* parse_free2move_net_cost *)

NETTO == Chars("Netto")
NETTO_WINDOW == 10

\* euro_pattern ^(\d{1,4}),(\d{2}) matched at the start of the line, \d{1,4}
\* taking n digits: Some(float(amount_str)) in cents, None if no match
AmountFrom(line, n) ==
    IF /\ n >= 1
       /\ Len(line) >= n + 3
       /\ line[n + 1] = ","
       /\ line[n + 2] \in Digits /\ line[n + 3] \in Digits
    THEN Some(Cents(Upto(line, n), SubSeq(line, n + 2, n + 3)))
    ELSE None

AmountOf(line) == AmountFrom(line, DigitRun(line, 0, 4))

\* the inner loop of lines 220-228 over lines[lo..hi] (1-based, inclusive)
FirstAmount(lines, lo, hi) ==
    FirstSome(AsTuple([j \in 1..(hi - lo + 1) |-> AmountOf(lines[lo + j - 1])]))

RECURSIVE F2mNetCostFrom(_, _)
\* lines 214-228 for line k; found is what the inner loop returns
F2mStep(lines, k, found) ==
    IF lines[k] = NETTO /\ found # None THEN found ELSE F2mNetCostFrom(lines, k + 1)

\* the loop of lines 213-228 from line number k on (i = k - 1 in the code)
F2mNetCostFrom(lines, k) ==
    IF k > Len(lines) THEN None
    ELSE F2mStep(lines, k, FirstAmount(lines, k + 1, Min2(k + NETTO_WINDOW, Len(lines))))

parse_free2move_net_cost(lines) == F2mNetCostFrom(lines, 1)

-----------------------------------------------------------------------------
(* sanitize_filename_component, build_filename, build_free2move_filename *)

FORBIDDEN == {"\\", "/", ":", "*", "?", "\"", "<", ">", "|"}

RECURSIVE CollapseWs(_, _)
\* re.sub(r"\s+", " ", s) from offset i on
CollapseWs(s, i) ==
    IF i >= Len(s) THEN <<>>
    ELSE IF s[i + 1] \in WS THEN <<" ">> \o CollapseWs(s, SkipIn(s, WS, i))
    ELSE <<s[i + 1]>> \o CollapseWs(s, i + 1)

sanitize_filename_component(s) ==
    Strip(CollapseWs(AsTuple([i \in 1..Len(s) |-> IF s[i] \in FORBIDDEN THEN " " ELSE s[i]]), 0))

\* the test `if net_cost:` of lines 242 and 268: None and 0.0 are both false
Truthy_cost(net_cost) == net_cost # None /\ net_cost[1] # 0

\* f", netcost {net_cost:.2f}"
NetcostSuffix(cents) ==
    Chars(", netcost ") \o IntStr(cents \div 100) \o <<".">> \o Pad2(cents % 100)

PDF == Chars(".pdf")

\* `not passenger`: None or the empty string
build_filename(passenger, dep, ret, net_cost) ==
    IF passenger = None \/ passenger = Some(<<>>) \/ dep = None THEN None
    ELSE Some(Chars("Flug, ") \o sanitize_filename_component(passenger[1]) \o Chars(", ")
              \o format_date(dep[1], "hinflug")
              \o (IF ret # None THEN <<"-">> \o format_date(ret[1], "rueckflug") ELSE <<>>)
              \o (IF Truthy_cost(net_cost) THEN NetcostSuffix(net_cost[1]) ELSE <<>>)
              \o PDF)

\* lines 258-271: the name built once the departure date is known
F2mName(dep, ret, net_cost) ==
    (IF ret # None /\ ret # dep
     THEN Chars("Free2move, ") \o format_date(dep[1], "hinflug")
          \o <<"-">> \o format_date(ret[1], "rueckflug")
     ELSE Chars("Free2move, ") \o format_date(dep[1], "rueckflug"))
    \o (IF Truthy_cost(net_cost) THEN NetcostSuffix(net_cost[1]) ELSE <<>>)
    \o PDF

\* the test of line 256 answering with a name that carries no date
build_free2move_filename_undated(dep, ret, net_cost) ==
    IF dep = None THEN Some(Chars("Free2move") \o PDF) ELSE Some(F2mName(dep, ret, net_cost))

build_free2move_filename(dep, ret, net_cost) ==
    IF dep = None THEN None ELSE Some(F2mName(dep, ret, net_cost))

-----------------------------------------------------------------------------
(* pathlib and the directory.  Every path of a run lies in one directory    *)
(* (with_name keeps the parent), so a path is its name.  `dir` maps each    *)
(* name that exists to [kind, id, raises, text]: kind "file" or "dir"; for  *)
(* a file, `raises` says that extract_text raises on it and `text` is what  *)
(* extract_text returns otherwise; `id` tells two files of equal text apart.*)

\* name.rfind("."), 0-based; -1 if there is none
RFindDot(name) ==
    LET at == {i \in 0..(Len(name) - 1) : name[i + 1] = "."}
    IN  IF at = {} THEN 0 - 1 ELSE CHOOSE i \in at : \A j \in at : j <= i

\* PurePath.suffix
Suffix(name) ==
    LET i == RFindDot(name)
    IN  IF 0 < i /\ i < Len(name) - 1 THEN From(name, i) ELSE <<>>

\* PurePath.stem
Stem(name) ==
    LET i == RFindDot(name)
    IN  IF 0 < i /\ i < Len(name) - 1 THEN Upto(name, i) ELSE name

\* Path.exists()
Exists(dir, name) == name \in DOMAIN dir

\* Path.is_file()
IsFile(dir, name) == name \in DOMAIN dir /\ dir[name].kind = "file"

\* the directory after os.rename(src, dst) has succeeded (POSIX: an existing
\* destination file is replaced)
Renamed(dir, src, dst) ==
    [n \in (DOMAIN dir \ {src}) \cup {dst} |-> IF n = dst THEN dir[src] ELSE dir[n]]

\* os.rename(src, dst) raises: the source is missing, the destination is a
\* directory, or the operating system refuses (rename_raises)
RenameFails(dir, src, dst, rename_raises) ==
    \/ rename_raises
    \/ src \notin DOMAIN dir
    \/ (dst \in DOMAIN dir /\ dst # src /\ dir[dst].kind = "dir")

-----------------------------------------------------------------------------
(* process_file *)

FREE2MOVE == Chars("Free2move")

\* line 313: pdf_path.with_name(f"{stem} ({counter}){suffix}"), stem and suffix
\* being those of final_path
Candidate(final_path, counter) ==
    Stem(final_path) \o Chars(" (") \o IntStr(counter) \o <<")">> \o Suffix(final_path)

\* the loop of lines 310-314 left out
CollisionLoop_none(pdf_path, final_path, counter, dir) == final_path

RECURSIVE CollisionLoop_notself(_, _, _, _)
\* the loop of lines 310-314 ending also when the candidate is the source
CollisionLoop_notself(pdf_path, final_path, counter, dir) ==
    IF Exists(dir, final_path) /\ final_path # pdf_path
    THEN CHOOSE r \in {CollisionLoop_notself(pdf_path, c, counter + 1, dir) :
                          c \in {Candidate(final_path, counter)}} : TRUE
    ELSE final_path

RECURSIVE CollisionLoop(_, _, _, _)
\* the loop of lines 310-314: the final_path it ends with (the candidate of
\* each round is computed once, then the loop goes on from it)
CollisionLoop(pdf_path, final_path, counter, dir) ==
    IF Exists(dir, final_path)
    THEN CHOOSE r \in {CollisionLoop(pdf_path, c, counter + 1, dir) :
                          c \in {Candidate(final_path, counter)}} : TRUE
    ELSE final_path

\* lines 281-285: the fields of a car-rental invoice and its filename
F2mFields(dates, net_cost) ==
    [is_free2move |-> TRUE, passenger |-> None,
     dep |-> dates[1], ret |-> dates[2], net_cost |-> net_cost,
     new_name |-> build_free2move_filename(dates[1], dates[2], net_cost)]

\* lines 288-296: the fields of a flight invoice and its filename
FlightFields(passenger, dates, net_cost) ==
    [is_free2move |-> FALSE, passenger |-> passenger,
     dep |-> dates[1], ret |-> dates[2], net_cost |-> net_cost,
     new_name |-> build_filename(passenger, dates[1], dates[2], net_cost)]

\* lines 279-296: the fields extracted and the filename built from them
Extracted(pdf_path, lines) ==
    IF StartsAt(pdf_path, FREE2MOVE, 0)
    THEN F2mFields(parse_free2move_dates(lines), parse_free2move_net_cost(lines))
    ELSE FlightFields(parse_name_from_text(lines), parse_dates_from_text(lines),
                      parse_net_cost_from_text(lines))

NoFields ==
    [is_free2move |-> FALSE, passenger |-> None, dep |-> None, ret |-> None,
     net_cost |-> None, new_name |-> None]

\* What one call does.  ok, msg: the pair returned; raised: an exception left
\* the function; dir: the directory afterwards; parsed: line 296 or 285 was
\* reached, and x holds the fields; final: the path given to rename, if rename
\* was called; existed: that path existed when rename was called.
Outcome(ok, msg, raised, dir, parsed, x, final, existed) ==
    [ok |-> ok, msg |-> msg, raised |-> raised, dir |-> dir, parsed |-> parsed,
     x |-> x, final |-> final, existed |-> existed]

Msg(kind, file, new) == [kind |-> kind, file |-> file, new |-> new]

\* lines 315-316: pdf_path.rename(final_path) and the success message
RenameTo(pdf_path, dir, rename_raises, x, final_path) ==
    IF RenameFails(dir, pdf_path, final_path, rename_raises)
    THEN Outcome(FALSE, None, TRUE, dir, TRUE, x, Some(final_path),
                 Exists(dir, final_path))
    ELSE Outcome(TRUE, Some(Msg("renamed", pdf_path, Some(final_path))), FALSE,
                 Renamed(dir, pdf_path, final_path), TRUE, x, Some(final_path),
                 Exists(dir, final_path))

\* lines 298-316, x being the fields and the filename of lines 279-296
AfterBuild(pdf_path, dry_run, dir, rename_raises, x) ==
    IF x.new_name = None
    THEN Outcome(FALSE, Some(Msg("missing", pdf_path, None)), FALSE, dir, TRUE, x,
                 None, FALSE)
    ELSE IF dry_run
    THEN Outcome(TRUE, Some(Msg("dry-run", pdf_path, x.new_name)), FALSE, dir, TRUE, x,
                 None, FALSE)
    ELSE RenameTo(pdf_path, dir, rename_raises, x,
                  CollisionLoop(pdf_path, x.new_name[1], 1, dir))

\* the body of the try statement, lines 276-316
process_file_body(pdf_path, dry_run, dir, rename_raises) ==
    IF ~IsFile(dir, pdf_path) \/ dir[pdf_path].raises
    THEN Outcome(FALSE, None, TRUE, dir, FALSE, NoFields, None, FALSE)
    ELSE AfterBuild(pdf_path, dry_run, dir, rename_raises,
                    Extracted(pdf_path, extract_lines(dir[pdf_path].text)))

\* lines 317-318: `except Exception` turns every exception of the body into
\* (False, "[name] Fehler: ...")
Caught(pdf_path, r) ==
    IF r.raised
    THEN [r EXCEPT !.ok = FALSE, !.msg = Some(Msg("error", pdf_path, None)),
                   !.raised = FALSE]
    ELSE r

\* the try statement without its except clause
process_file_nocatch(pdf_path, dry_run, dir, rename_raises) ==
    process_file_body(pdf_path, dry_run, dir, rename_raises)

\* the dry_run test of line 304 left out
process_file_wet(pdf_path, dry_run, dir, rename_raises) ==
    Caught(pdf_path, process_file_body(pdf_path, FALSE, dir, rename_raises))

\* lines 274-318
process_file(pdf_path, dry_run, dir, rename_raises) ==
    Caught(pdf_path, process_file_body(pdf_path, dry_run, dir, rename_raises))

-----------------------------------------------------------------------------
(* main *)

WILDCARDS == {"*", "?", "[", "]"}

\* any(ch in p for ch in "*?[]")
HasWildcard(p) == \E i \in 1..Len(p) : p[i] \in WILDCARDS

RECURSIVE GlobMatch(_, _, _, _)
\* whether pattern pat from offset i on matches name from offset j on, for
\* patterns of "*", "?" and literal characters
GlobMatch(pat, i, name, j) ==
    IF i = Len(pat) THEN j = Len(name)
    ELSE IF pat[i + 1] = "*" THEN \E k \in j..Len(name) : GlobMatch(pat, i + 1, name, k)
    ELSE /\ j < Len(name)
         /\ (pat[i + 1] = "?" \/ pat[i + 1] = name[j + 1])
         /\ GlobMatch(pat, i + 1, name, j + 1)

\* the orders in which the file system may list the names of S
Listings(S) ==
    {q \in [1..Cardinality(S) -> S] : \A a, b \in 1..Cardinality(S) : q[a] = q[b] => a = b}

\* the test of line 332
IsPdfFile(dir, m) == IsFile(dir, m) /\ Lower(Suffix(m)) = PDF

RECURSIVE Keep(_, _)
\* lines 331-333 for one list of matches
Keep(dir, matches) ==
    IF matches = <<>> THEN <<>>
    ELSE (IF IsPdfFile(dir, matches[1]) THEN <<matches[1]>> ELSE <<>>)
         \o Keep(dir, Tail(matches))

RECURSIVE Select(_, _)
\* the names of `listing` that pattern p matches, in listing order
Select(p, listing) ==
    IF listing = <<>> THEN <<>>
    ELSE (IF GlobMatch(p, 0, listing[1], 0) THEN <<listing[1]>> ELSE <<>>)
         \o Select(p, Tail(listing))

RECURSIVE Expanded(_, _, _)
\* lines 327-333: the list `files`, `listing` being the order in which the
\* file system lists the directory (main changes nothing before line 340, so
\* every glob of a run sees the same order)
Expanded(dir, listing, paths) ==
    IF paths = <<>> THEN <<>>
    ELSE Keep(dir, IF HasWildcard(paths[1]) THEN Select(paths[1], listing) ELSE <<paths[1]>>)
         \o Expanded(dir, listing, Tail(paths))

\* sys.exit(0 if ok_all else 1) always exiting 0
ExitStatus_zero(ok) == 0

\* line 345
ExitStatus(ok) == IF ok THEN 0 ELSE 1

-----------------------------------------------------------------------------
(* The directories and command lines of the model *)

Lines(qq) == Join(qq, <<"\n">>)

DOC_ANDRE ==
    Lines(<<Chars("Ziemke Andre"),
            Chars("Flug: 06.10.2025 Flugnummer EW 9083"),
            Chars("19% VAT 1,00 € 5,00 €")>>)

DOC_CAR == Lines(<<Chars("22.09.25"), Chars("24.09.25"), Chars("Netto"), Chars("146,71")>>)

\* a passenger and a net cost, but no flight line
DOC_NODATE == Lines(<<Chars("Ziemke Andre"), Chars("19% VAT 1,00 € 5,00 €")>>)

\* a flight line, but nobody of the allow-list
DOC_ANON == Lines(<<Chars("Flug: 06.10.2025 Flugnummer EW 9083")>>)

TARGET_ANDRE == Chars("Flug, Andre Ziemke, 06.10., netcost 5.00.pdf")
TARGET_ANDRE_1 == Chars("Flug, Andre Ziemke, 06.10., netcost 5.00 (1).pdf")

File(id, raises, text) == [kind |-> "file", id |-> id, raises |-> raises, text |-> text]

EntryPool ==
    { [name |-> Chars("a.pdf"), node |-> File(1, FALSE, Some(DOC_ANDRE))],
      [name |-> Chars("b.PDF"), node |-> File(2, FALSE, Some(DOC_ANDRE))],
      [name |-> Chars("c.pdf"), node |-> File(3, FALSE, Some(DOC_NODATE))],
      [name |-> TARGET_ANDRE, node |-> File(4, FALSE, Some(DOC_ANDRE))],
      [name |-> TARGET_ANDRE_1, node |-> File(5, TRUE, None)],
      [name |-> Chars("Free2move_1.pdf"), node |-> File(6, FALSE, Some(DOC_CAR))],
      [name |-> Chars("Free2move_2.pdf"), node |-> File(7, FALSE, None)],
      [name |-> Chars("d.pdf"), node |-> [kind |-> "dir", id |-> 8, raises |-> TRUE, text |-> None]],
      [name |-> Chars("e.pdf"), node |-> File(9, FALSE, Some(DOC_ANON))] }

DirOf(E) == [n \in {e.name : e \in E} |-> (CHOOSE e \in E : e.name = n).node]

Directories == {DirOf(E) : E \in {E \in SUBSET EntryPool : Cardinality(E) <= MaxDirEntries}}

ArgPool == {Chars("b.PDF"), Chars("*.pdf")}

Init ==
    /\ fs \in Directories
    /\ fs0 = fs
    /\ argv \in [paths : SeqsUpTo(ArgPool, MaxArgs) \ {<<>>}, dry_run : BOOLEAN]
    /\ files = <<>>
    /\ idx = 0
    /\ ok_all = TRUE
    /\ stdout = <<>>
    /\ exit_code = None
    /\ pc = "start"
    /\ calls = <<>>
    /\ last = None
    /\ inp = None
    /\ outp = None

\* lines 327-333
Expand ==
    /\ pc = "start"
    /\ \E listing \in Listings(DOMAIN fs) : files' = Expanded(fs, listing, argv.paths)
    /\ pc' = "check"
    /\ UNCHANGED <<fs, fs0, argv, idx, ok_all, stdout, exit_code, calls, last, inp, outp>>

\* lines 335-337
NoFiles ==
    /\ pc = "check"
    /\ files = <<>>
    /\ stdout' = Append(stdout, Msg("nofiles", None, None))
    /\ exit_code' = Some(2)
    /\ pc' = "exit"
    /\ UNCHANGED <<fs, fs0, argv, files, idx, ok_all, calls, last, inp, outp>>

\* line 339
EnterLoop ==
    /\ pc = "check"
    /\ files # <<>>
    /\ ok_all' = TRUE
    /\ pc' = "loop"
    /\ UNCHANGED <<fs, fs0, argv, files, idx, stdout, exit_code, calls, last, inp, outp>>

\* lines 340-343, one iteration; an exception that leaves process_file ends
\* the interpreter with a traceback and status 1
ProcessNext ==
    /\ pc = "loop"
    /\ idx < Len(files)
    /\ \E rename_raises \in BOOLEAN :
        \E f \in {files[idx + 1]} :
        \E r \in {process_file(f, argv.dry_run, fs, rename_raises)} :
              /\ calls' = Append(calls, [path |-> f, ok |-> r.ok, raised |-> r.raised])
              /\ last' = Some([path |-> f, ok |-> r.ok, msg |-> r.msg, parsed |-> r.parsed,
                               x |-> r.x, final |-> r.final, existed |-> r.existed,
                               before |-> DOMAIN fs, changed |-> r.dir # fs])
              /\ fs' = r.dir
              /\ IF r.raised
                 THEN /\ pc' = "traceback"
                      /\ exit_code' = Some(1)
                      /\ UNCHANGED <<stdout, ok_all, idx>>
                 ELSE /\ stdout' = Append(stdout, r.msg[1])
                      /\ ok_all' = (ok_all /\ r.ok)
                      /\ idx' = idx + 1
                      /\ UNCHANGED <<pc, exit_code>>
    /\ UNCHANGED <<fs0, argv, files, inp, outp>>

\* line 345
Exit ==
    /\ pc = "loop"
    /\ idx = Len(files)
    /\ exit_code' = Some(ExitStatus(ok_all))
    /\ pc' = "exit"
    /\ UNCHANGED <<fs, fs0, argv, files, idx, ok_all, stdout, calls, last, inp, outp>>

Next == Expand \/ NoFiles \/ EnterLoop \/ ProcessNext \/ Exit

Spec == Init /\ [][Next]_vars

-----------------------------------------------------------------------------
(* Inputs of the name extractor *)

NameLinePool ==
    { Chars("Passagier: Andre Ziemke"),
      Chars("ZIEMKE/ANDRE MR"),
      Chars("Ziemke Andre"),
      Chars("Thomas Stoeckel"),
      Chars("STOECKEL/THOMAS"),
      Chars("Herr Stoeckel Thomas"),
      Chars("Andre"),
      Chars("Ziemke"),
      Chars("Thomas"),
      Chars("Stoeckel"),
      Chars("Max Mustermann") }

-----------------------------------------------------------------------------
(* The batch is idle while a pure function is under test *)

BatchIdle ==
    /\ fs = <<>> /\ fs0 = <<>> /\ argv = <<>> /\ files = <<>> /\ idx = 0
    /\ ok_all = TRUE /\ stdout = <<>> /\ exit_code = None /\ calls = <<>>
    /\ last = None

batchVars == <<fs, fs0, argv, files, idx, ok_all, stdout, exit_code, calls, last>>

InitName ==
    /\ BatchIdle
    /\ inp \in SeqsUpTo(NameLinePool, MaxNameLines)
    /\ outp = None
    /\ pc = "call"

CallParseName ==
    /\ pc = "call"
    /\ outp' = parse_name_from_text(inp)
    /\ pc' = "done"
    /\ UNCHANGED <<inp, batchVars>>

NextName == CallParseName

SpecName == InitName /\ [][NextName]_vars

-----------------------------------------------------------------------------
(* Inputs of the airline date extractor: each line is written from a        *)
(* descriptor, so that what the line says is known apart from the parser.   *)

\* kind "de"/"en": the two labelled layouts of the docstring (lines 66-67);
\* "nonum": label and date but no flight number; "nolabel": no label
FlightLineDescs ==
    { [kind |-> "de", d |-> 6,  m |-> 10, y |-> 2025, pad |-> TRUE],
      [kind |-> "en", d |-> 13, m |-> 10, y |-> 2025, pad |-> TRUE],
      [kind |-> "de", d |-> 6,  m |-> 10, y |-> 2025, pad |-> FALSE],
      [kind |-> "en", d |-> 29, m |-> 2,  y |-> 2024, pad |-> TRUE],
      [kind |-> "de", d |-> 31, m |-> 12, y |-> 2024, pad |-> TRUE],
      [kind |-> "en", d |-> 29, m |-> 2,  y |-> 2025, pad |-> TRUE],
      [kind |-> "nonum", d |-> 5, m |-> 10, y |-> 2025, pad |-> TRUE],
      [kind |-> "nolabel", d |-> 1, m |-> 9, y |-> 2025, pad |-> TRUE] }

DateText(x) ==
    (IF x.pad THEN Pad2(x.d) ELSE IntStr(x.d)) \o <<".">> \o
    (IF x.pad THEN Pad2(x.m) ELSE IntStr(x.m)) \o <<".">> \o Pad4(x.y)

FlightLineText(x) ==
    CASE x.kind = "de" ->
            Chars("Flug: ") \o DateText(x) \o Chars(" | Flugnummer: EW 9083 (BASIC H)")
      [] x.kind = "en" ->
            Chars("Flight: ") \o DateText(x) \o Chars(" | Flight Number EW 9083 (BIZClass AS)")
      [] x.kind = "nonum" ->
            Chars("Flug: ") \o DateText(x) \o Chars(" Hamburg - Wien")
      [] x.kind = "nolabel" ->
            Chars("Rechnungsdatum ") \o DateText(x) \o Chars(" | Flugnummer: EW 9083")

FlightLinePool == {FlightLineText(x) : x \in FlightLineDescs}

InitDates ==
    /\ BatchIdle
    /\ inp \in SeqsUpTo(FlightLinePool, MaxFlightLines)
    /\ outp = None
    /\ pc = "call"

CallParseDates ==
    /\ pc = "call"
    /\ outp' = parse_dates_from_text(inp)
    /\ pc' = "done"
    /\ UNCHANGED <<inp, batchVars>>

NextDates == CallParseDates

SpecDates == InitDates /\ [][NextDates]_vars

-----------------------------------------------------------------------------
(* Inputs of the two filename builders: what the extractors hand over *)

PassengerPool == {None} \cup {Some(KNOWN_PASSENGERS[k]) : k \in 1..Len(KNOWN_PASSENGERS)}

DatePool == {None, MakeDate(2025, 9, 22), MakeDate(2025, 9, 24), MakeDate(2025, 10, 6)}

VatLinePool ==
    { Chars("(3)* 19% VAT (17.95 €) 94.47 € 112.42 €"),
      Chars("(0)* 19 % MwSt (0,00 €) 0,00 € 0,00 €"),
      Chars("Summe 112,42 €") }

NettoPool ==
    { <<Chars("Netto"), Chars("USt."), Chars("€"), Chars("146,71")>>,
      <<Chars("Netto"), Chars("0,00")>> }

NetCostPool ==
    {parse_net_cost_from_text(<<l>>) : l \in VatLinePool}
        \cup {parse_free2move_net_cost(q) : q \in NettoPool}

\* the extractors give a return date only with a departure date that is not
\* later (lines 93-97, 186-191)
InitBuild ==
    /\ BatchIdle
    /\ inp \in [passenger : PassengerPool, dep : DatePool, ret : DatePool,
                net_cost : NetCostPool]
    /\ inp.dep = None => inp.ret = None
    /\ (inp.dep # None /\ inp.ret # None) => ~DateLess(inp.ret[1], inp.dep[1])
    /\ outp = None
    /\ pc = "call"

CallBuildFilename ==
    /\ pc = "call"
    /\ outp' = build_filename(inp.passenger, inp.dep, inp.ret, inp.net_cost)
    /\ pc' = "done"
    /\ UNCHANGED <<inp, batchVars>>

CallBuildFree2move ==
    /\ pc = "call"
    /\ outp' = build_free2move_filename(inp.dep, inp.ret, inp.net_cost)
    /\ pc' = "done"
    /\ UNCHANGED <<inp, batchVars>>

NextBuild == CallBuildFilename \/ CallBuildFree2move

SpecBuild == InitBuild /\ [][NextBuild]_vars

-----------------------------------------------------------------------------
(* C8 *)

DescTable == [line \in FlightLinePool |-> CHOOSE x \in FlightLineDescs : FlightLineText(x) = line]

DescOf(line) == DescTable[line]

\* a labelled date + flight-code line with a valid calendar date
IsFlightLine(x) == x.kind \in {"de", "en"} /\ IsValidDate(x.y, x.m, x.d)

\* the positions of the k lines of the claim
FlightPositions(lines) == {p \in 1..Len(lines) : IsFlightLine(DescOf(lines[p]))}

DateOfDesc(x) == [year |-> x.y, month |-> x.m, day |-> x.d]

DateAt(lines, p) == DateOfDesc(DescOf(lines[p]))

\* a position holding a minimum of the dates at the positions P
MinPos(lines, P) ==
    CHOOSE p \in P : \A q \in P : ~DateLess(DateAt(lines, q), DateAt(lines, p))

\* the minimum of the dates at P, which is at p1, and the minimum of the rest
MinAndNext(lines, P, p1) ==
    <<Some(DateAt(lines, p1)),
      IF P = {p1} THEN None ELSE Some(DateAt(lines, MinPos(lines, P \ {p1})))>>

\* the two smallest of the dates at the positions P
TwoSmallest(lines, P) ==
    IF P = {} THEN <<None, None>> ELSE MinAndNext(lines, P, MinPos(lines, P))

\* C8: with k >= 1 labelled lines of valid date, the departure is the minimum
\* of the k dates whatever the line order, the return date is the
\* second-smallest (counting duplicates) when k >= 2 and absent when k = 1;
\* with k = 0 both are absent.
C8_DatesAreTwoSmallest ==
    pc = "done" => outp = TwoSmallest(inp, FlightPositions(inp))

\* three labelled lines in descending date order, one of them a duplicate
\* date written without padding, have been parsed
C8_Witness ==
    /\ pc = "done"
    /\ Len(inp) = 3
    /\ Cardinality(FlightPositions(inp)) = 3
    /\ DateLess(DateAt(inp, 3), DateAt(inp, 1))
    /\ DateAt(inp, 2) = DateAt(inp, 3)
    /\ inp[2] # inp[3]
    /\ outp = <<Some(DateAt(inp, 3)), Some(DateAt(inp, 3))>>

-----------------------------------------------------------------------------
(* C5 *)

\* The three spellings of each allow-list entry as the comment of line 105
\* and the specification give them: first last, last first, LAST/FIRST.
Spellings ==
    << {Chars("andre ziemke"), Chars("ziemke andre"), Chars("ziemke/andre")},
       {Chars("thomas stoeckel"), Chars("stoeckel thomas"), Chars("stoeckel/thomas")} >>

Mentions(k, lines) ==
    \E sp \in Spellings[k] : Contains(Lower(Join(lines, <<" ">>)), sp)

\* C5: whenever the joined lowercase text contains an allow-list name N as
\* "first last", "last first" or "last/first", parse_name_from_text returns
\* exactly N.  (Line 108 builds "first/last", so a text that holds only
\* "STOECKEL/THOMAS" yields None.)
C5_AsStated ==
    pc = "done" =>
        \A k \in 1..Len(KNOWN_PASSENGERS) :
            Mentions(k, inp) => outp = Some(KNOWN_PASSENGERS[k])

-----------------------------------------------------------------------------
(* C1 *)

\* the files of a directory, apart from their names
Nodes(dir) == {dir[n] : n \in DOMAIN dir}

\* C1: without --dry-run, the path passed to rename never existed just before
\* the rename; so every file of the start is still there with its content,
\* under its old or its new name, and the number of files has not changed,
\* also when two files of the batch yield the same target.
C1_NeverOverwrites ==
    ~argv.dry_run =>
        /\ (last # None /\ last[1].final # None) => ~last[1].existed
        /\ Nodes(fs) = Nodes(fs0)
        /\ Cardinality(DOMAIN fs) = Cardinality(DOMAIN fs0)

\* two files of one batch yielded the same target and both were renamed
C1_Witness ==
    /\ pc = "exit"
    /\ ~argv.dry_run
    /\ Len(calls) = 2 /\ calls[1].ok /\ calls[2].ok
    /\ Len(stdout) = 2
    /\ stdout[1].kind = "renamed" /\ stdout[1].new = Some(TARGET_ANDRE)
    /\ stdout[2].kind = "renamed" /\ stdout[2].new = Some(TARGET_ANDRE_1)
    /\ DOMAIN fs = {TARGET_ANDRE, TARGET_ANDRE_1}
    /\ DOMAIN fs0 = {Chars("a.pdf"), Chars("b.PDF")}

-----------------------------------------------------------------------------
(* C2 *)

\* whether argument p names the directory entry n
ArgNames(p, n) == IF HasWildcard(p) THEN GlobMatch(p, 0, n, 0) ELSE n = p

\* the existing regular files with a case-insensitive .pdf suffix that result
\* from the arguments
PdfFilesOfArgs ==
    {n \in DOMAIN fs0 :
        /\ \E k \in 1..Len(argv.paths) : ArgNames(argv.paths[k], n)
        /\ fs0[n].kind = "file"
        /\ Lower(Suffix(n)) = PDF}

\* C2: the exit status is 2 exactly when no existing regular .pdf file results
\* from the arguments, and then process_file is called for no file; otherwise
\* it is 0 exactly when every call returned success and 1 exactly when at
\* least one call returned failure.
C2_ExitStatus ==
    exit_code # None =>
        /\ exit_code = Some(2) <=> PdfFilesOfArgs = {}
        /\ exit_code = Some(2) => calls = <<>>
        /\ exit_code # Some(2) =>
              /\ Len(calls) >= 1
              /\ exit_code = Some(0) <=> \A i \in 1..Len(calls) : calls[i].ok
              /\ exit_code = Some(1) <=> \E i \in 1..Len(calls) : ~calls[i].ok

\* a batch of a success and a failure has ended with status 1
C2_Witness ==
    /\ pc = "exit"
    /\ exit_code = Some(1)
    /\ Len(calls) = 2
    /\ calls[1].ok /\ ~calls[2].ok

-----------------------------------------------------------------------------
(* C3 *)

\* C3: no exception of a file leaves process_file, and main calls process_file
\* once for each file of the list, in list order, and prints one message per
\* file; when it exits with a non-empty list, every file has had its call and
\* its message.
C3_BatchNeverAborted ==
    /\ pc # "traceback"
    /\ \A i \in 1..Len(calls) : ~calls[i].raised
    /\ Len(calls) = idx /\ idx <= Len(files)
    /\ \A i \in 1..Len(calls) : calls[i].path = files[i]
    /\ files # <<>> =>
          /\ Len(stdout) = Len(calls)
          /\ \A i \in 1..Len(stdout) : stdout[i].file = files[i]
    /\ (pc = "exit" /\ files # <<>>) => Len(calls) = Len(files)

\* text extraction raised for the first file, the rename raised for the
\* second or a field was missing, and the batch went on to its end
C3_Witness ==
    /\ pc = "exit"
    /\ Len(files) = 2 /\ Len(calls) = 2 /\ Len(stdout) = 2
    /\ stdout[1].kind = "error" /\ stdout[1].file = TARGET_ANDRE_1
    /\ stdout[2].kind \in {"error", "missing"}
    /\ exit_code = Some(1)

-----------------------------------------------------------------------------
(* C4 *)

\* C4: with --dry-run the directory stays as it was, no rename is performed
\* for any file, and a file whose filename can be built is reported as a
\* success with the would-be name.
C4_DryRunLeavesDirectory ==
    argv.dry_run =>
        /\ DOMAIN fs = DOMAIN fs0
        /\ fs = fs0
        /\ last # None =>
              /\ last[1].final = None
              /\ ~last[1].changed
              /\ (last[1].parsed /\ last[1].x.new_name # None) =>
                    /\ last[1].ok
                    /\ last[1].msg = Some(Msg("dry-run", last[1].path, last[1].x.new_name))

\* a dry run over a file that lacks a field and a file whose name can be built
C4_Witness ==
    /\ pc = "exit"
    /\ argv.dry_run
    /\ Len(stdout) = 2
    /\ stdout[1].kind = "missing"
    /\ stdout[2].kind = "dry-run" /\ stdout[2].new = Some(TARGET_ANDRE)
    /\ stdout[2].file = Chars("a.pdf")
    /\ fs = fs0

-----------------------------------------------------------------------------
(* C6 *)

\* a required field of the fields x is absent
RequiredMissing(x) ==
    IF x.is_free2move THEN x.dep = None
    ELSE x.passenger = None \/ x.passenger = Some(<<>>) \/ x.dep = None

\* C6: when the passenger (flight invoice) or the departure date (either
\* vendor) is absent, no filename is built, and process_file returns failure
\* with the missing-data message and renames nothing, with and without
\* --dry-run; a filename is built only from a full set of required fields.
C6_MissingFieldNoRename ==
    (last # None /\ last[1].parsed) =>
        /\ RequiredMissing(last[1].x) =>
              /\ last[1].x.new_name = None
              /\ ~last[1].ok
              /\ last[1].msg = Some(Msg("missing", last[1].path, None))
              /\ last[1].final = None
              /\ ~last[1].changed
        /\ last[1].x.new_name # None => ~RequiredMissing(last[1].x)

\* a real run met a flight invoice with a passenger but no departure date,
\* after one with a departure date but no passenger
C6_Witness ==
    /\ ~argv.dry_run
    /\ Len(stdout) = 2
    /\ stdout[1].kind = "missing" /\ stdout[1].file = Chars("e.pdf")
    /\ last # None /\ last[1].parsed
    /\ last[1].path = Chars("c.pdf")
    /\ last[1].x.passenger = Some(Chars("Andre Ziemke"))
    /\ last[1].x.dep = None
    /\ last[1].msg = Some(Msg("missing", Chars("c.pdf"), None))
    /\ fs = fs0

-----------------------------------------------------------------------------
(* C9 *)

\* C9: when the desired target exists, the final name is
\* "<desired stem> (k)<ext>" for the smallest k >= 1 for which that name is
\* free, with exactly one counter.  (Line 311 takes the stem of the candidate
\* of the round before, so with "X.pdf" and "X (1).pdf" present the loop ends
\* with "X (1) (2).pdf".)
C9_AsStated ==
    (last # None /\ last[1].final # None /\ last[1].x.new_name[1] \in last[1].before) =>
        \E k \in 1..(Cardinality(last[1].before) + 1) :
            /\ last[1].final[1] = Candidate(last[1].x.new_name[1], k)
            /\ Candidate(last[1].x.new_name[1], k) \notin last[1].before
            /\ \A j \in 1..(k - 1) : Candidate(last[1].x.new_name[1], j) \in last[1].before

-----------------------------------------------------------------------------
(* C10 *)

\* `name` is `base` with one counter or more put before the extension
CounterSuffixed(name, base) ==
    /\ Len(name) > Len(base)
    /\ StartsAt(name, Stem(base) \o Chars(" ("), 0)
    /\ StartsAt(name, <<")">> \o Suffix(base), Len(name) - Len(Suffix(base)) - 1)

\* C10: a successful call without --dry-run never ends with the source path
\* as final path; a file that already carries its target filename collides
\* with itself and is renamed to a counter-suffixed name.
C10_AlwaysRenamed ==
    (last # None /\ last[1].ok /\ ~argv.dry_run) =>
        /\ last[1].final # None
        /\ last[1].final # Some(last[1].path)
        /\ last[1].path \notin DOMAIN fs
        /\ last[1].x.new_name = Some(last[1].path) =>
              CounterSuffixed(last[1].final[1], last[1].path)

\* the only file of the directory already carried its target filename and
\* was renamed again
C10_Witness ==
    /\ ~argv.dry_run
    /\ DOMAIN fs0 = {TARGET_ANDRE}
    /\ last # None /\ last[1].ok
    /\ last[1].path = TARGET_ANDRE
    /\ last[1].x.new_name = Some(TARGET_ANDRE)
    /\ last[1].final = Some(TARGET_ANDRE_1)
    /\ DOMAIN fs = {TARGET_ANDRE_1}

-----------------------------------------------------------------------------
(* C7 *)

\* s.endswith(t)
EndsWith(s, t) == Len(s) >= Len(t) /\ StartsAt(s, t, Len(s) - Len(t))

\* C7: whenever the net cost is present, zero included, the filename built
\* ends with ", netcost <cost with two decimals>.pdf"; the suffix is left out
\* only when the net cost is absent.  (Lines 242 and 268 test `if net_cost:`,
\* which is false for 0.0, so a net cost of 0.00 gets no suffix.)
C7_AsStated ==
    (pc = "done" /\ outp # None) =>
        /\ inp.net_cost # None =>
              EndsWith(outp[1], NetcostSuffix(inp.net_cost[1]) \o PDF)
        /\ inp.net_cost = None => ~Contains(outp[1], Chars(", netcost "))

=============================================================================
